---------------------------- MODULE Spec2Model ----------------------------
(***************************************************************************)
(* Document ingestion service: extraction cascade, sliding-window chunker, *)
(* embedding gateway, vector-store persistence and the two upload          *)
(* handlers.  Strings are sequences of one-character strings.              *)
(***************************************************************************)
EXTENDS Integers, Sequences, FiniteSets, TLC

VARIABLES
    store,      \* the ChromaDB collection: record id -> stored record
    clock,      \* the wall clock read by datetime.now()
    call,       \* the last direct store_document invocation and its outcome
    idc,        \* an id computation: two (document_id, index) pairs and their ids
    ex,         \* a direct process_pdf / process_document invocation and its result
    ck,         \* one _split_into_chunks invocation: arguments, locals, position
    req         \* the in-flight requests: request -> locals and position

vars == <<store, clock, call, idc, ex, ck, req>>

(***************************************************************************)
(* Bounds of the model                                                     *)
(***************************************************************************)
MaxTextLen == 5      \* longest text given to the chunker walk
MaxChunkSize == 3    \* largest chunk_size given to the chunker walk
MaxWindows == 3      \* windows of 500 characters a long text is cut into

(***************************************************************************)
(* Program constants                                                       *)
(***************************************************************************)
CHUNK_SIZE == 500
CHUNK_OVERLAP == 50

(***************************************************************************)
(* Strings                                                                 *)
(***************************************************************************)
Min(a, b) == IF a < b THEN a ELSE b

\* the characters str.strip() and the regular expression \s treat as whitespace
IsSpace(c) == c \in {" ", "\n", "\t"}

\* a slice bound as Python reads it: a negative bound counts from the end of
\* the text, and every bound is clamped to 0..len
SliceBound(i, len) ==
    IF i < 0 THEN (IF len + i < 0 THEN 0 ELSE len + i) ELSE Min(i, len)

\* Python's text[lo:hi]: empty when the bounds cross
Slice(text, lo, hi) ==
    SubSeq(text, SliceBound(lo, Len(text)) + 1, SliceBound(hi, Len(text)))

\* Python's str.strip(): drop the leading and the trailing whitespace
Strip(s) ==
    IF \A i \in 1..Len(s) : IsSpace(s[i]) THEN <<>>
    ELSE LET lo == CHOOSE i \in 1..Len(s) :
                      ~IsSpace(s[i]) /\ \A j \in 1..(i - 1) : IsSpace(s[j])
             hi == CHOOSE i \in 1..Len(s) :
                      ~IsSpace(s[i]) /\ \A j \in (i + 1)..Len(s) : IsSpace(s[j])
         IN  SubSeq(s, lo, hi)

(***************************************************************************)
(* Chunker: _split_into_chunks (the two copies in document_processor.py    *)
(* and pdf_processor.py are the same function)                             *)
(***************************************************************************)
\* the source window of one loop iteration, before trimming
Window(text, chunk_size, start) == Slice(text, start, start + chunk_size)

\* a faulty step that forgets the overlap: the walk advances by chunk_size
StepNoOverlap(chunk_size, overlap) == chunk_size

\* step = chunk_size - overlap
Step(chunk_size, overlap) == chunk_size - overlap

\* a faulty loop body without the `if chunk` test: every trimmed window is
\* appended, the empty ones too
LoopBodyKeepEmpty(text, chunk_size, overlap, s) ==
    LET chunk == Strip(Window(text, chunk_size, s.start))
    IN  [start  |-> s.start + Step(chunk_size, overlap),
         chunks |-> Append(s.chunks, chunk)]

\* one iteration of the while loop on the locals s = [start, chunks]
LoopBody(text, chunk_size, overlap, s) ==
    LET chunk == Strip(Window(text, chunk_size, s.start))
    IN  [start  |-> s.start + Step(chunk_size, overlap),
         chunks |-> IF chunk # <<>> THEN Append(s.chunks, chunk) ELSE s.chunks]

\* while start < len(text)
LoopGuard(text, s) == s.start < Len(text)

RECURSIVE LoopRun(_, _, _, _)
LoopRun(text, chunk_size, overlap, s) ==
    IF LoopGuard(text, s)
    THEN LoopRun(text, chunk_size, overlap, LoopBody(text, chunk_size, overlap, s))
    ELSE s

\* the whole function, for its callers
split_into_chunks(text, chunk_size, overlap) ==
    IF text = <<>> THEN <<>>
    ELSE LoopRun(text, chunk_size, overlap, [start |-> 0, chunks |-> <<>>]).chunks

(***************************************************************************)
(* The chunker walk, one loop iteration per step                           *)
(***************************************************************************)
ChunkChars == {"a", "b", " ", "\n"}

RECURSIVE StringsUpTo(_, _)
StringsUpTo(chars, n) ==
    IF n = 0 THEN {<<>>}
    ELSE LET shorter == StringsUpTo(chars, n - 1)
         IN  shorter \cup {Append(s, c) : s \in {t \in shorter : Len(t) = n - 1}, c \in chars}

ChunkerIdle ==
    [pc |-> "idle", text |-> <<>>, chunk_size |-> 0, overlap |-> 0,
     start |-> 0, chunks |-> <<>>, windows |-> <<>>, result |-> <<>>]

\* the arguments of a call that meets the precondition 0 <= overlap < chunk_size
ChunkerCalls ==
    {a \in [pc : {"call"}, text : StringsUpTo(ChunkChars, MaxTextLen),
            chunk_size : 1..MaxChunkSize, overlap : 0..MaxChunkSize,
            start : {0}, chunks : {<<>>}, windows : {<<>>}, result : {<<>>}] :
        a.overlap < a.chunk_size}

\* the arguments of any call: the function does not compare overlap with
\* chunk_size, so overlap >= chunk_size is passed on to the loop as well
WalkChars == {"a", " "}

ChunkerCallsAny ==
    [pc : {"call"}, text : StringsUpTo(WalkChars, MaxTextLen),
     chunk_size : 1..MaxChunkSize, overlap : 0..MaxChunkSize,
     start : {0}, chunks : {<<>>}, windows : {<<>>}, result : {<<>>}]

\* if not text: return []; otherwise the locals are initialised
SplitEnter ==
    /\ ck.pc = "call"
    /\ ck' = IF ck.text = <<>>
             THEN [ck EXCEPT !.pc = "done", !.result = <<>>]
             ELSE [ck EXCEPT !.pc = "loop", !.start = 0, !.chunks = <<>>]
    /\ UNCHANGED <<store, clock, call, idc, ex, req>>

\* one iteration of the while loop; windows records the slice it cut.  A walk
\* is followed for MaxTextLen + 1 iterations at most: one that meets
\* overlap < chunk_size has left the loop by then, any other never leaves it.
SplitIterate ==
    /\ ck.pc = "loop"
    /\ LoopGuard(ck.text, ck)
    /\ Len(ck.windows) <= MaxTextLen
    /\ LET s == LoopBody(ck.text, ck.chunk_size, ck.overlap,
                         [start |-> ck.start, chunks |-> ck.chunks])
       IN  ck' = [ck EXCEPT !.start = s.start, !.chunks = s.chunks,
                            !.windows = Append(@, Window(ck.text, ck.chunk_size, ck.start))]
    /\ UNCHANGED <<store, clock, call, idc, ex, req>>

\* the loop exits and the chunks are returned
SplitReturn ==
    /\ ck.pc = "loop"
    /\ ~LoopGuard(ck.text, ck)
    /\ ck' = [ck EXCEPT !.pc = "done", !.result = ck.chunks]
    /\ UNCHANGED <<store, clock, call, idc, ex, req>>

(***************************************************************************)
(* Storage layer: record ids                                               *)
(***************************************************************************)
Digits == <<"0", "1", "2", "3", "4", "5", "6", "7", "8", "9">>

\* str(i) of a non-negative integer: its decimal digits, no leading zero
RECURSIVE IntToStr(_)
IntToStr(i) ==
    IF i < 10 THEN <<Digits[i + 1]>>
    ELSE Append(IntToStr(i \div 10), Digits[(i % 10) + 1])

ChunkSep == <<"_", "c", "h", "u", "n", "k", "_">>

\* a faulty id that leaves the separator out
ChunkIdNoSeparator(document_id, i) == document_id \o IntToStr(i)

\* a faulty id that leaves the document id out
ChunkIdNoDocument(document_id, i) == ChunkSep \o IntToStr(i)

\* f"{document_id}_chunk_{i}"
ChunkId(document_id, i) == document_id \o ChunkSep \o IntToStr(i)

(***************************************************************************)
(* Storage layer: the collection and store_document                        *)
(***************************************************************************)
EmptyCollection == [k \in {} |-> k]

Count(coll) == Cardinality(DOMAIN coll)

\* the metadata dictionary built for chunk i (0-based) of a call
Metadata(document_id, chunk_text, i, timestamp) ==
    [document_id |-> document_id, chunk_text |-> chunk_text,
     chunk_index |-> i, timestamp |-> timestamp]

\* an upsert, for comparison: an id already present is overwritten
CollectionUpsert(coll, ids, embeddings, documents, metadatas) ==
    LET new == {ids[n] : n \in 1..Len(ids)}
        at(k) == CHOOSE n \in 1..Len(ids) : ids[n] = k
    IN  IF Cardinality(new) # Len(ids)
        THEN [raised |-> "DuplicateIDError", coll |-> coll]
        ELSE [raised |-> "none",
              coll |-> [k \in DOMAIN coll \cup new |->
                          IF k \in new
                          THEN [embedding |-> embeddings[at(k)],
                                document |-> documents[at(k)],
                                metadata |-> metadatas[at(k)]]
                          ELSE coll[k]]]

\* an add that refuses a batch holding an id the collection already has
\* (the behaviour of clients older than the persistent client)
CollectionAddStrict(coll, ids, embeddings, documents, metadatas) ==
    IF \E n \in 1..Len(ids) : ids[n] \in DOMAIN coll
    THEN [raised |-> "IDAlreadyExistsError", coll |-> coll]
    ELSE CollectionUpsert(coll, ids, embeddings, documents, metadatas)

\* _collection.add(ids=, embeddings=, documents=, metadatas=) of the persistent
\* client: a batch that repeats an id is refused, an id the collection already
\* holds is skipped and keeps its stored record, every other id is inserted
CollectionAdd(coll, ids, embeddings, documents, metadatas) ==
    LET new == {ids[n] : n \in 1..Len(ids)}
        at(k) == CHOOSE n \in 1..Len(ids) : ids[n] = k
    IN  IF Cardinality(new) # Len(ids)
        THEN [raised |-> "DuplicateIDError", coll |-> coll]
        ELSE [raised |-> "none",
              coll |-> [k \in DOMAIN coll \cup new |->
                          IF k \in DOMAIN coll
                          THEN coll[k]
                          ELSE [embedding |-> embeddings[at(k)],
                                document |-> documents[at(k)],
                                metadata |-> metadatas[at(k)]]]]

\* a faulty store_document without the empty-list guard: the batch is always
\* handed to the collection
store_document_no_guard(coll, now, document_id, chunks, embeddings) ==
    LET timestamp == now
        ids == [n \in 1..Len(chunks) |-> ChunkId(document_id, n - 1)]
        metadatas == [n \in 1..Len(chunks) |->
                         Metadata(document_id, chunks[n], n - 1, timestamp)]
        added == CollectionAdd(coll, ids, embeddings, chunks, metadatas)
    IN  [raised |-> added.raised, coll |-> added.coll, add_called |-> TRUE]

\* store_document: no chunks is a no-op; otherwise one timestamp is read, the
\* ids and metadata are built in chunk order and the batch is added.
\* add_called records whether _collection.add was reached.
store_document(coll, now, document_id, chunks, embeddings) ==
    IF chunks = <<>>
    THEN [raised |-> "none", coll |-> coll, add_called |-> FALSE]
    ELSE LET timestamp == now
             ids == [n \in 1..Len(chunks) |-> ChunkId(document_id, n - 1)]
             metadatas == [n \in 1..Len(chunks) |->
                              Metadata(document_id, chunks[n], n - 1, timestamp)]
             added == CollectionAdd(coll, ids, embeddings, chunks, metadatas)
         IN  [raised |-> added.raised, coll |-> added.coll, add_called |-> TRUE]

(***************************************************************************)
(* Direct calls of store_document, one after the other                     *)
(***************************************************************************)
MaxCalls == 2        \* store_document calls in one run
MaxChunks == 2       \* chunks in one store_document call

StoreDocIds == {<<"a">>, <<"b">>}

\* a chunk with its embedding vector
StoreItems ==
    {[text |-> <<"x">>, vec |-> <<0, 1>>],
     [text |-> <<"y">>, vec |-> <<1, 0>>],
     [text |-> <<"x">>, vec |-> <<1, 0>>]}

RECURSIVE SeqsUpTo(_, _)
SeqsUpTo(S, n) ==
    IF n = 0 THEN {<<>>}
    ELSE LET shorter == SeqsUpTo(S, n - 1)
         IN  shorter \cup {Append(s, x) : s \in {t \in shorter : Len(t) = n - 1}, x \in S}

CallIdle ==
    [pc |-> "idle", document_id |-> <<>>, chunks |-> <<>>, embeddings |-> <<>>,
     timestamp |-> 0, before |-> EmptyCollection, raised |-> "none",
     add_called |-> FALSE]

\* a caller invokes store_document(document_id, chunks, embeddings) with
\* len(chunks) = len(embeddings); the call runs to its end
StoreCall ==
    /\ clock < MaxCalls
    /\ \E d \in StoreDocIds, items \in SeqsUpTo(StoreItems, MaxChunks) :
         LET chunks == [n \in 1..Len(items) |-> items[n].text]
             embeddings == [n \in 1..Len(items) |-> items[n].vec]
             r == store_document(store, clock, d, chunks, embeddings)
         IN  /\ store' = r.coll
             /\ call' = [pc |-> "returned", document_id |-> d, chunks |-> chunks,
                         embeddings |-> embeddings, timestamp |-> clock,
                         before |-> store, raised |-> r.raised,
                         add_called |-> r.add_called]
    /\ clock' = clock + 1
    /\ UNCHANGED <<idc, ex, ck, req>>

(***************************************************************************)
(* Record ids of two (document id, chunk index) pairs                      *)
(***************************************************************************)
MaxIdLen == 1        \* longest plain document id
MaxIndex == 10       \* largest chunk index

IdChars == {"a", "1"}

PlainIds == StringsUpTo(IdChars, MaxIdLen)

\* document ids: plain ones, and ones that look like a record id themselves
DocIds == PlainIds \cup {b \o ChunkSep \o t : b \in PlainIds, t \in PlainIds}

IdIdle == [pc |-> "idle", d1 |-> <<>>, i |-> 0, d2 |-> <<>>, j |-> 0,
           id1 |-> <<>>, id2 |-> <<>>]

IdCalls ==
    [pc : {"call"}, d1 : DocIds, i : 0..MaxIndex, d2 : DocIds, j : 0..MaxIndex,
     id1 : {<<>>}, id2 : {<<>>}]

\* the id expression of store_document evaluated for both pairs
ComputeIds ==
    /\ idc.pc = "call"
    /\ idc' = [idc EXCEPT !.pc = "computed",
                          !.id1 = ChunkId(idc.d1, idc.i),
                          !.id2 = ChunkId(idc.d2, idc.j)]
    /\ UNCHANGED <<store, clock, call, ex, ck, req>>

(***************************************************************************)
(* Text helpers of the extractors                                          *)
(***************************************************************************)
\* sep.join(parts)
RECURSIVE Join(_, _)
Join(parts, sep) ==
    IF parts = <<>> THEN <<>>
    ELSE IF Len(parts) = 1 THEN parts[1]
    ELSE parts[1] \o sep \o Join(Tail(parts), sep)

\* re.sub(r"\s+", " ", s): every run of whitespace becomes one space.  The two
\* halves are rewritten apart; a run cut by the split leaves a space on each
\* side, of which one is kept.
RECURSIVE CollapseSpaces(_)
CollapseSpaces(s) ==
    IF Len(s) = 0 THEN <<>>
    ELSE IF Len(s) = 1 THEN (IF IsSpace(s[1]) THEN <<" ">> ELSE s)
    ELSE LET m == Len(s) \div 2
             l == CollapseSpaces(SubSeq(s, 1, m))
             r == CollapseSpaces(SubSeq(s, m + 1, Len(s)))
         IN  IF l[Len(l)] = " " /\ r[1] = " " THEN l \o Tail(r) ELSE l \o r

\* a faulty normalisation that leaves the ends of the text untrimmed
NormalizeNoStrip(s) == CollapseSpaces(s)

\* re.sub(r"\s+", " ", s).strip()
Normalize(s) == Strip(CollapseSpaces(s))

\* the items of a sequence after f, keeping those that are not empty
StripAll(items) == [n \in 1..Len(items) |-> Strip(items[n])]
NonEmpty(t) == t # <<>>
NotBlank(t) == Strip(t) # <<>>

Uppers == <<"A", "B", "C", "D", "E", "F", "G", "H", "I", "J", "K", "L", "M",
            "N", "O", "P", "Q", "R", "S", "T", "U", "V", "W", "X", "Y", "Z">>
Lowers == <<"a", "b", "c", "d", "e", "f", "g", "h", "i", "j", "k", "l", "m",
            "n", "o", "p", "q", "r", "s", "t", "u", "v", "w", "x", "y", "z">>

\* str.lower()
Lower(s) ==
    [n \in 1..Len(s) |->
        IF \E u \in 1..26 : Uppers[u] = s[n]
        THEN Lowers[CHOOSE u \in 1..26 : Uppers[u] = s[n]]
        ELSE s[n]]

(***************************************************************************)
(* Files on disk, as the extraction libraries see them.  Each part is      *)
(* [exc, items]: exc is the exception the library raises on it ("none",    *)
(* "RuntimeError", "ImportError", or "OtherError" for any exception that   *)
(* is not a RuntimeError), items what it yields otherwise.                 *)
(***************************************************************************)
MaxPages == 1        \* pages, page images, embedded images, paragraphs of a file

PageTexts == {<<>>, <<" ">>, <<"a", "\n", " ", "b">>}

Yields(S) == [exc : {"none"}, items : SeqsUpTo(S, MaxPages)]
Raises(E) == [exc : E, items : {<<>>}]
Nothing == [exc |-> "none", items |-> <<>>]

\* an embedded image: decodable or not, and the text OCR reads in it
Images == [ok : {TRUE}, text : PageTexts] \cup {[ok |-> FALSE, text |-> <<>>]}

PdfFiles ==
    [format : {"pdf"},
     native : Yields(PageTexts) \cup Raises({"OtherError"}),
     ocr : Yields(PageTexts) \cup Raises({"ImportError", "RuntimeError", "OtherError"}),
     images : Yields(Images) \cup Raises({"RuntimeError", "OtherError"}),
     paragraphs : {Nothing}, slides : {Nothing}]

DocxFiles ==
    [format : {"docx"}, native : {Nothing}, ocr : {Nothing}, images : {Nothing},
     paragraphs : Yields(PageTexts) \cup Raises({"OtherError"}), slides : {Nothing}]

\* a slide is the sequence of the paragraph texts of its shapes' text frames
PptxFiles ==
    [format : {"pptx"}, native : {Nothing}, ocr : {Nothing}, images : {Nothing},
     paragraphs : {Nothing},
     slides : Yields(SeqsUpTo(PageTexts, MaxPages)) \cup Raises({"OtherError"})]

OtherFiles ==
    [format : {"other"}, native : {Nothing}, ocr : {Nothing}, images : {Nothing},
     paragraphs : {Nothing}, slides : {Nothing}]

Files == PdfFiles \cup DocxFiles \cup PptxFiles \cup OtherFiles

(***************************************************************************)
(* pdf_processor.py: the three stages and process_pdf                      *)
(***************************************************************************)
Returned(text) == [raised |-> "none", text |-> text]
Raised(exc) == [raised |-> exc, text |-> <<>>]

\* pypdf.PdfReader(file_path): a file that is no PDF cannot be read
PdfReader(f) == IF f.format = "pdf" THEN "none" ELSE "OtherError"

\* Stage 1, _extract_text_native
extract_text_native(f) ==
    IF f.native.exc # "none" THEN Raised(f.native.exc)
    ELSE Returned(Normalize(Join(SelectSeq(f.native.items, NotBlank), <<"\n">>)))

\* _import_pdf2image: a missing module is reported as a RuntimeError
import_pdf2image(f) == IF f.ocr.exc = "ImportError" THEN "RuntimeError" ELSE "none"

\* Stage 2, _extract_text_ocr
extract_text_ocr(f) ==
    IF import_pdf2image(f) # "none" THEN Raised(import_pdf2image(f))
    ELSE IF f.ocr.exc # "none" THEN Raised(f.ocr.exc)
    ELSE Returned(Normalize(Join(SelectSeq(StripAll(f.ocr.items), NonEmpty), <<"\n">>)))

\* Stage 3, _extract_images_text: an image that cannot be decoded or read is
\* skipped inside the stage
extract_images_text(f) ==
    IF f.images.exc # "none" THEN Raised(f.images.exc)
    ELSE LET decoded(img) == img.ok
             read == SelectSeq(f.images.items, decoded)
             texts == [n \in 1..Len(read) |-> Strip(read[n].text)]
         IN  Returned(Normalize(Join(SelectSeq(texts, NonEmpty), <<"\n">>)))

\* parts.append(text) if text
AppendIf(parts, text) == IF text # <<>> THEN Append(parts, text) ELSE parts

Outcome(raised, chunks, attempted) ==
    [raised |-> raised, chunks |-> chunks, attempted |-> attempted]

\* the end of process_pdf and process_document: normalise, then chunk
CombineAndChunk(raw) ==
    LET clean == Normalize(raw)
    IN  IF clean = <<>> THEN <<>>
        ELSE split_into_chunks(clean, CHUNK_SIZE, CHUNK_OVERLAP)

\* process_pdf: stage 1 runs unguarded; stages 2 and 3 run inside
\* try ... except RuntimeError; attempted names the stages that were called
process_pdf(f) ==
    IF PdfReader(f) # "none" THEN Outcome(PdfReader(f), <<>>, {})
    ELSE LET s1 == extract_text_native(f)
             s2 == extract_text_ocr(f)
             s3 == extract_images_text(f)
             parts1 == AppendIf(<<>>, s1.text)
             parts2 == AppendIf(parts1, s2.text)
             parts3 == AppendIf(parts2, s3.text)
         IN  IF s1.raised # "none" THEN Outcome(s1.raised, <<>>, {"native"})
             ELSE IF s2.raised \notin {"none", "RuntimeError"}
             THEN Outcome(s2.raised, <<>>, {"native", "page_ocr"})
             ELSE IF s3.raised \notin {"none", "RuntimeError"}
             THEN Outcome(s3.raised, <<>>, {"native", "page_ocr", "image_ocr"})
             ELSE Outcome("none", CombineAndChunk(Join(parts3, <<" ">>)),
                          {"native", "page_ocr", "image_ocr"})

(***************************************************************************)
(* document_processor.py: the extractors and process_document              *)
(***************************************************************************)
SUPPORTED_EXTENSIONS ==
    {<<".", "p", "d", "f">>, <<".", "d", "o", "c", "x">>, <<".", "p", "p", "t", "x">>}

\* _extract_pdf: the text layer alone, pages with text joined by newlines
extract_pdf(f) ==
    IF PdfReader(f) # "none" THEN Raised(PdfReader(f))
    ELSE IF f.native.exc # "none" THEN Raised(f.native.exc)
    ELSE Returned(Join(SelectSeq(f.native.items, NonEmpty), <<"\n">>))

\* _extract_docx
extract_docx(f) ==
    IF f.format # "docx" THEN Raised("OtherError")
    ELSE IF f.paragraphs.exc # "none" THEN Raised(f.paragraphs.exc)
    ELSE Returned(Join(SelectSeq(StripAll(f.paragraphs.items), NonEmpty), <<"\n">>))

\* _extract_pptx
extract_pptx(f) ==
    IF f.format # "pptx" THEN Raised("OtherError")
    ELSE IF f.slides.exc # "none" THEN Raised(f.slides.exc)
    ELSE LET slide_parts(slide) == SelectSeq(StripAll(slide), NonEmpty)
             has_parts(slide) == slide_parts(slide) # <<>>
             kept == SelectSeq(f.slides.items, has_parts)
         IN  Returned(Join([n \in 1..Len(kept) |-> Join(slide_parts(kept[n]), <<" ">>)],
                           <<"\n">>))

\* the stages process_document runs for an extension
StagesOf(ext) ==
    IF ext = <<".", "p", "d", "f">> THEN {"native"}
    ELSE IF ext = <<".", "d", "o", "c", "x">> THEN {"docx"}
    ELSE {"pptx"}

\* a faulty process_document that dispatches without validating the extension
process_document_no_check(f, file_ext) ==
    LET ext == Lower(file_ext)
        got == IF ext = <<".", "p", "d", "f">> THEN extract_pdf(f)
               ELSE IF ext = <<".", "d", "o", "c", "x">> THEN extract_docx(f)
               ELSE extract_pptx(f)
    IN  IF got.raised # "none" THEN Outcome(got.raised, <<>>, StagesOf(ext))
        ELSE Outcome("none", CombineAndChunk(got.text), StagesOf(ext))

\* process_document: the extension is validated, then one extractor runs
process_document(f, file_ext) ==
    LET ext == Lower(file_ext)
        got == IF ext = <<".", "p", "d", "f">> THEN extract_pdf(f)
               ELSE IF ext = <<".", "d", "o", "c", "x">> THEN extract_docx(f)
               ELSE extract_pptx(f)
    IN  IF ext \notin SUPPORTED_EXTENSIONS THEN Outcome("ValueError", <<>>, {})
        ELSE IF got.raised # "none" THEN Outcome(got.raised, <<>>, StagesOf(ext))
        ELSE Outcome("none", CombineAndChunk(got.text), StagesOf(ext))

(***************************************************************************)
(* Direct calls of process_pdf and process_document                        *)
(***************************************************************************)
Extensions ==
    SUPPORTED_EXTENSIONS \cup
    {<<".", "P", "D", "F">>, <<".", "t", "x", "t">>, <<>>}

ExIdle ==
    [pc |-> "idle", fn |-> "none", file |-> CHOOSE f \in OtherFiles : TRUE,
     file_ext |-> <<>>, result |-> Outcome("none", <<>>, {})]

ExCalls ==
    [pc : {"call"}, fn : {"process_pdf"}, file : Files, file_ext : {<<>>},
     result : {Outcome("none", <<>>, {})}]
    \cup
    [pc : {"call"}, fn : {"process_document"}, file : Files, file_ext : Extensions,
     result : {Outcome("none", <<>>, {})}]

\* process_pdf(file_path) runs to its return or to the exception it raises
ProcessPdfCall ==
    /\ ex.pc = "call" /\ ex.fn = "process_pdf"
    /\ ex' = [ex EXCEPT !.pc = "done", !.result = process_pdf(ex.file)]
    /\ UNCHANGED <<store, clock, call, idc, ck, req>>

\* process_document(file_path, file_ext) likewise
ProcessDocumentCall ==
    /\ ex.pc = "call" /\ ex.fn = "process_document"
    /\ ex' = [ex EXCEPT !.pc = "done", !.result = process_document(ex.file, ex.file_ext)]
    /\ UNCHANGED <<store, clock, call, idc, ck, req>>

(***************************************************************************)
(* embedding_service.py                                                    *)
(***************************************************************************)
\* _model.encode on one chunk: a fixed function of the chunk's text
Encode(chunk) ==
    <<Len(chunk), Cardinality({n \in 1..Len(chunk) : chunk[n] = "a"})>>

\* generate_embeddings: one vector per chunk, in chunk order
generate_embeddings(chunks) == [n \in 1..Len(chunks) |-> Encode(chunks[n])]

(***************************************************************************)
(* main.py: the upload handlers                                            *)
(***************************************************************************)
ALLOWED_EXTENSIONS == SUPPORTED_EXTENSIONS

\* s.endswith(suffix)
EndsWith(s, suffix) ==
    /\ Len(s) >= Len(suffix)
    /\ SubSeq(s, Len(s) - Len(suffix) + 1, Len(s)) = suffix

\* os.path.splitext(name)[1] of a name without directories: from the last dot
\* on, unless only dots come before it
SplitExt(name) ==
    LET dots == {n \in 1..Len(name) : name[n] = "."}
    IN  IF dots = {} THEN <<>>
        ELSE LET last == CHOOSE n \in dots : \A m \in dots : m <= n
             IN  IF \A m \in 1..(last - 1) : name[m] = "." THEN <<>>
                 ELSE SubSeq(name, last, Len(name))

\* upload_document, step 1: the extension of the lowercased file name
ValidateDocument(filename) ==
    IF SplitExt(Lower(filename)) \notin ALLOWED_EXTENSIONS THEN "HTTP400" ELSE "none"

\* upload_pdf, step 1: a PDF content type, or a name that ends in .pdf
ValidatePdf(filename, content_type) ==
    IF /\ content_type \notin {"application/pdf", "application/octet-stream"}
       /\ ~EndsWith(Lower(filename), <<".", "p", "d", "f">>)
    THEN "HTTP400" ELSE "none"

\* a faulty check that lets an empty chunk list through
RejectEmptyNever(chunks) == "none"

\* if not chunks: raise HTTPException(status_code=422)
RejectEmpty(chunks) == IF chunks = <<>> THEN "HTTP422" ELSE "none"

\* the response FastAPI sends for the exception that left the handler
StatusOf(pending) ==
    IF pending = "none" THEN 200
    ELSE IF pending = "HTTP400" THEN 400
    ELSE IF pending = "HTTP422" THEN 422
    ELSE 500

Reqs == {1, 2}

UUIDs == {<<"u", "1">>, <<"u", "2">>}

\* a request that has been received: its arguments and the handler's locals;
\* created, extraction, embedded and store_called record what the handler did
NewRequest(endpoint, filename, content_type, file) ==
    [pc |-> "validate", endpoint |-> endpoint, filename |-> filename,
     content_type |-> content_type, file |-> file,
     file_ext |-> <<>>, tmp_path |-> "", tmp_file |-> "absent",
     chunks |-> <<>>, embeddings |-> <<>>, document_id |-> <<>>,
     pending |-> "none", status |-> 0, written_at |-> 0,
     created |-> FALSE, extraction |-> "pending", embedded |-> FALSE,
     store_called |-> FALSE]

\* step 1 of both handlers
Validate(r) ==
    /\ req[r].pc = "validate"
    /\ LET q == req[r]
           verdict == IF q.endpoint = "upload_pdf"
                      THEN ValidatePdf(q.filename, q.content_type)
                      ELSE ValidateDocument(q.filename)
           ext == IF q.endpoint = "upload_pdf" THEN <<".", "p", "d", "f">>
                  ELSE SplitExt(Lower(q.filename))
       IN  req' = [req EXCEPT ![r] =
                     IF verdict # "none"
                     THEN [q EXCEPT !.pc = "done", !.pending = verdict,
                                    !.status = StatusOf(verdict)]
                     ELSE [q EXCEPT !.pc = "create", !.file_ext = ext]]
    /\ UNCHANGED <<store, clock, call, idc, ex, ck>>

\* tempfile.NamedTemporaryFile(delete=False, suffix=...) creates the file
CreateTemp(r) ==
    /\ req[r].pc = "create"
    /\ req' = [req EXCEPT ![r] = [@ EXCEPT !.pc = "copy", !.tmp_file = "present",
                                           !.created = TRUE]]
    /\ UNCHANGED <<store, clock, call, idc, ex, ck>>

\* shutil.copyfileobj succeeds, the with block closes the file, and
\* tmp_path = tmp.name is assigned
CopyUpload(r) ==
    /\ req[r].pc = "copy"
    /\ req' = [req EXCEPT ![r] = [@ EXCEPT !.pc = "extract", !.tmp_path = "tmp"]]
    /\ UNCHANGED <<store, clock, call, idc, ex, ck>>

\* shutil.copyfileobj raises (the upload stream breaks, the disk is full): the
\* with block closes the file and control goes to finally, tmp_path still ""
CopyUploadFails(r) ==
    /\ req[r].pc = "copy"
    /\ req' = [req EXCEPT ![r] = [@ EXCEPT !.pc = "finally", !.pending = "OtherError"]]
    /\ UNCHANGED <<store, clock, call, idc, ex, ck>>

\* step 3: process_pdf or process_document on the temp file, then the
\* emptiness check
Extract(r) ==
    /\ req[r].pc = "extract"
    /\ LET q == req[r]
           got == IF q.endpoint = "upload_pdf" THEN process_pdf(q.file)
                  ELSE process_document(q.file, q.file_ext)
       IN  req' = [req EXCEPT ![r] =
                     IF got.raised # "none"
                     THEN [q EXCEPT !.pc = "finally", !.pending = got.raised,
                                    !.extraction = "raised"]
                     ELSE IF RejectEmpty(got.chunks) # "none"
                     THEN [q EXCEPT !.pc = "finally", !.chunks = got.chunks,
                                    !.pending = RejectEmpty(got.chunks),
                                    !.extraction = "returned"]
                     ELSE [q EXCEPT !.pc = "embed", !.chunks = got.chunks,
                                    !.extraction = "returned"]]
    /\ UNCHANGED <<store, clock, call, idc, ex, ck>>

\* step 4: generate_embeddings returns
Embed(r) ==
    /\ req[r].pc = "embed"
    /\ req' = [req EXCEPT ![r] =
                 [@ EXCEPT !.pc = "store", !.embedded = TRUE,
                           !.embeddings = generate_embeddings(req[r].chunks)]]
    /\ UNCHANGED <<store, clock, call, idc, ex, ck>>

\* step 4: the embedding model raises
EmbedFails(r) ==
    /\ req[r].pc = "embed"
    /\ req' = [req EXCEPT ![r] = [@ EXCEPT !.pc = "finally", !.pending = "OtherError"]]
    /\ UNCHANGED <<store, clock, call, idc, ex, ck>>

\* the document ids handed out so far; uuid4 never repeats one
UsedIds == {req[r].document_id : r \in Reqs} \cup {<<"u", "0">>}

\* step 5: document_id = str(uuid.uuid4()), then store_document
Store(r) ==
    /\ req[r].pc = "store"
    /\ \E u \in UUIDs \ UsedIds :
         LET q == req[r]
             done == store_document(store, clock, u, q.chunks, q.embeddings)
         IN  /\ store' = done.coll
             /\ req' = [req EXCEPT ![r] =
                          [q EXCEPT !.pc = "finally", !.document_id = u,
                                    !.store_called = TRUE, !.written_at = clock,
                                    !.pending = done.raised]]
    /\ clock' = clock + 1
    /\ UNCHANGED <<call, idc, ex, ck>>

\* step 6, the finally block: the temp file is removed if tmp_path is set and
\* the file exists; then the handler returns or the exception leaves it
Cleanup(r) ==
    /\ req[r].pc = "finally"
    /\ req' = [req EXCEPT ![r] =
                 [@ EXCEPT !.pc = "done", !.status = StatusOf(req[r].pending),
                           !.tmp_file = IF req[r].tmp_path # "" /\ @ = "present"
                                        THEN "absent" ELSE @]]
    /\ UNCHANGED <<store, clock, call, idc, ex, ck>>

(***************************************************************************)
(* The uploads the requests carry                                          *)
(***************************************************************************)
LongTextLen == 460   \* a text layer that needs a second window

LongText == [n \in 1..LongTextLen |-> "b"]

Pdf(native, ocr) ==
    [format |-> "pdf", native |-> native, ocr |-> ocr, images |-> Nothing,
     paragraphs |-> Nothing, slides |-> Nothing]

Page(text) == [exc |-> "none", items |-> <<text>>]

UploadFiles ==
    {Pdf(Nothing, Page(<<"a", "\n">>)),                           \* a scanned PDF
     Pdf(Nothing, Nothing),                                       \* a PDF without text
     Pdf(Page(<<"a">>), [exc |-> "OtherError", items |-> <<>>]),  \* OCR engine missing
     Pdf(Page(LongText), Nothing),                                \* two chunks
     [format |-> "docx", native |-> Nothing, ocr |-> Nothing, images |-> Nothing,
      paragraphs |-> Page(<<"a", " ", "b">>), slides |-> Nothing]}

\* upload_pdf looks at the content type and at the end of the file name
PdfUploads ==
    {<<<<"a", ".", "p", "d", "f">>, "text/plain">>,
     <<<<"a", ".", "t", "x", "t">>, "application/pdf">>,
     <<<<"a", ".", "t", "x", "t">>, "text/plain">>}

\* upload_document looks at the extension of the file name
DocumentUploads ==
    {<<"a", ".", "P", "D", "F">>, <<"a", ".", "d", "o", "c", "x">>,
     <<"a", ".", "t", "x", "t">>}

Uploads ==
    {NewRequest("upload_pdf", u[1], u[2], f) : u \in PdfUploads, f \in UploadFiles}
    \cup
    {NewRequest("upload_document", n, "application/octet-stream", f) :
        n \in DocumentUploads, f \in UploadFiles}

\* the collection of an earlier run of the service
Preloaded ==
    store_document(EmptyCollection, 0, <<"u", "0">>, <<<<"o">>>>,
                   generate_embeddings(<<<<"o">>>>)).coll

(***************************************************************************)
(* Long text layers: lengths around the window starts 0, 450, 900, ...,     *)
(* with up to two spaces placed at the ends of the text and at the window   *)
(* starts, where a trimmed or blank window could arise                      *)
(***************************************************************************)
LongTails == {1, 2, 300, 450}

LongLengths == {(CHUNK_SIZE - CHUNK_OVERLAP) * k + d : k \in 0..(MaxWindows - 1), d \in LongTails}

SpacePositions(len) ==
    {p \in {1, len - 1, len} \cup
            {(CHUNK_SIZE - CHUNK_OVERLAP) * k + d : k \in 1..(MaxWindows - 1), d \in {0, 1}} :
        1 <= p /\ p <= len}

LongRaw(len, spaces) == [n \in 1..len |-> IF n \in spaces THEN " " ELSE "b"]

\* position 0 stands for "no space"
LongTextsOf(len) ==
    {LongRaw(len, {p, q}) : p \in SpacePositions(len) \cup {0},
                            q \in SpacePositions(len) \cup {0}}

LongTexts == UNION {LongTextsOf(len) : len \in LongLengths}

\* process_pdf and process_document called on a PDF whose text layer is one
\* page holding a long text
LongCalls ==
    [pc : {"call"}, fn : {"process_pdf"},
     file : {Pdf(Page(t), Nothing) : t \in LongTexts}, file_ext : {<<>>},
     result : {Outcome("none", <<>>, {})}]
    \cup
    [pc : {"call"}, fn : {"process_document"},
     file : {Pdf(Page(t), Nothing) : t \in LongTexts},
     file_ext : {<<".", "p", "d", "f">>}, result : {Outcome("none", <<>>, {})}]

(***************************************************************************)
(* Idle values of the parts a specification does not run                   *)
(***************************************************************************)
ReqIdle ==
    [r \in Reqs |->
        [NewRequest("none", <<>>, "", CHOOSE f \in OtherFiles : TRUE)
            EXCEPT !.pc = "idle"]]

(***************************************************************************)
(* Specifications                                                          *)
(***************************************************************************)
InitStore ==
    /\ store = EmptyCollection
    /\ clock = 0
    /\ call = CallIdle
    /\ idc = IdIdle /\ ex = ExIdle /\ ck = ChunkerIdle /\ req = ReqIdle

NextStore == StoreCall

SpecStore == InitStore /\ [][NextStore]_vars

InitChunk ==
    /\ ck \in ChunkerCalls
    /\ store = EmptyCollection /\ clock = 0 /\ call = CallIdle
    /\ idc = IdIdle /\ ex = ExIdle /\ req = ReqIdle

NextChunk == SplitEnter \/ SplitIterate \/ SplitReturn

SpecChunk == InitChunk /\ [][NextChunk]_vars

InitWalk ==
    /\ ck \in ChunkerCallsAny
    /\ store = EmptyCollection /\ clock = 0 /\ call = CallIdle
    /\ idc = IdIdle /\ ex = ExIdle /\ req = ReqIdle

\* a call that has started keeps executing: the function runs on one thread
\* and waits for nothing
SpecWalk == InitWalk /\ [][NextChunk]_vars /\ WF_vars(NextChunk)

InitId ==
    /\ idc \in IdCalls
    /\ store = EmptyCollection /\ clock = 0 /\ call = CallIdle
    /\ ex = ExIdle /\ ck = ChunkerIdle /\ req = ReqIdle

NextId == ComputeIds

SpecId == InitId /\ [][NextId]_vars

InitExtract ==
    /\ ex \in ExCalls
    /\ store = EmptyCollection /\ clock = 0 /\ call = CallIdle
    /\ idc = IdIdle /\ ck = ChunkerIdle /\ req = ReqIdle

NextExtract == ProcessPdfCall \/ ProcessDocumentCall

SpecExtract == InitExtract /\ [][NextExtract]_vars

InitLong ==
    /\ ex \in LongCalls
    /\ store = EmptyCollection /\ clock = 0 /\ call = CallIdle
    /\ idc = IdIdle /\ ck = ChunkerIdle /\ req = ReqIdle

SpecLong == InitLong /\ [][NextExtract]_vars

InitUpload ==
    /\ req \in [Reqs -> Uploads]
    /\ store \in {EmptyCollection, Preloaded}
    /\ clock = 1
    /\ call = CallIdle /\ idc = IdIdle /\ ex = ExIdle /\ ck = ChunkerIdle

NextUpload ==
    \E r \in Reqs :
        \/ Validate(r) \/ CreateTemp(r) \/ CopyUpload(r) \/ CopyUploadFails(r)
        \/ Extract(r) \/ Embed(r) \/ EmbedFails(r) \/ Store(r) \/ Cleanup(r)

SpecUpload == InitUpload /\ [][NextUpload]_vars

InitEntry == InitExtract \/ InitUpload

NextEntry == NextExtract \/ NextUpload

\* a run is either one direct call of an extraction entry point or two uploads
SpecEntry == InitEntry /\ [][NextEntry]_vars

(***************************************************************************)
(* Properties                                                              *)
(***************************************************************************)
\* the record ids of the last store_document call, in chunk order
CallIds == [n \in 1..Len(call.chunks) |-> ChunkId(call.document_id, n - 1)]

\* C1 (as claimed): after a store_document call has returned, every record
\* d_chunk_i holds that call's chunk i, embedding i and timestamp, also when
\* the id was in the store before the call (upsert).
C1_StoreOverwrites ==
    (call.pc = "returned" /\ call.raised = "none") =>
        \A n \in 1..Len(call.chunks) :
            /\ CallIds[n] \in DOMAIN store
            /\ store[CallIds[n]].document = call.chunks[n]
            /\ store[CallIds[n]].embedding = call.embeddings[n]
            /\ store[CallIds[n]].metadata =
                   Metadata(call.document_id, call.chunks[n], n - 1, call.timestamp)

\* C2: every store_document call returns without error and raises the record
\* count by len(chunks) minus the number of its ids that were already stored.
C2_CountDelta ==
    call.pc = "returned" =>
        /\ call.raised = "none"
        /\ Count(store) = Count(call.before) + Len(call.chunks)
               - Cardinality({n \in 1..Len(call.chunks) : CallIds[n] \in DOMAIN call.before})

\* C2 witness: a call of two chunks whose ids were all stored already returned
\* and left the count where it was.
C2_Witness ==
    /\ call.pc = "returned"
    /\ Len(call.chunks) = 2
    /\ \A n \in 1..2 : CallIds[n] \in DOMAIN call.before
    /\ Count(store) = Count(call.before)

\* C7: two (document id, index) pairs have the same record id exactly when
\* they are the same pair.
C7_IdInjective ==
    idc.pc = "computed" =>
        ((idc.id1 = idc.id2) <=> (idc.d1 = idc.d2 /\ idc.i = idc.j))

\* C7 witness: the first document id is itself the record id of the second
\* document, and the two record ids were computed and differ.
C7_Witness ==
    /\ idc.pc = "computed"
    /\ idc.d1 = idc.d2 \o ChunkSep \o <<"1">>
    /\ idc.i = 0 /\ idc.j = 10
    /\ idc.id1 # idc.id2

AllStages == {"native", "page_ocr", "image_ocr"}

\* the text a stage contributes when an exception inside it counts as no text
Surviving(got) == IF got.raised = "none" THEN got.text ELSE <<>>

\* C3 (as claimed): process_pdf on a PDF never raises, whatever exception a
\* stage raises: a failed stage contributes no text, all stages still run and
\* the chunks are those of the stages that survived.
C3_StageFailuresContained ==
    (ex.pc = "done" /\ ex.fn = "process_pdf" /\ ex.file.format = "pdf") =>
        /\ ex.result.raised = "none"
        /\ ex.result.attempted = AllStages
        /\ ex.result.chunks =
              CombineAndChunk(Join(
                  AppendIf(AppendIf(AppendIf(<<>>,
                      Surviving(extract_text_native(ex.file))),
                      Surviving(extract_text_ocr(ex.file))),
                      Surviving(extract_images_text(ex.file))), <<" ">>))

\* no library call on the file raises
Readable(f) ==
    /\ f.format = "pdf"
    /\ f.native.exc = "none" /\ f.ocr.exc = "none" /\ f.images.exc = "none"

\* the call in ex is the orchestrator given a PDF
GivenPdf ==
    \/ ex.fn = "process_pdf"
    \/ ex.fn = "process_document" /\ Lower(ex.file_ext) = <<".", "p", "d", "f">>

\* C4 (as claimed): given a readable PDF, process_pdf and process_document
\* with the tag .pdf attempt all three stages, and a PDF with an empty text
\* layer and an OCR-readable page yields chunks.
C4_AllStagesAttempted ==
    (ex.pc = "done" /\ GivenPdf /\ Readable(ex.file)) =>
        /\ ex.result.attempted = AllStages
        /\ (extract_text_native(ex.file).text = <<>>
            /\ extract_text_ocr(ex.file).text # <<>>) => ex.result.chunks # <<>>

\* C5 (as claimed): a finished upload request that created a temporary file
\* has removed it, whichever way the request ended.
C5_TempFileRemoved ==
    \A r \in DOMAIN req :
        (req[r].pc = "done" /\ req[r].created) => req[r].tmp_file = "absent"

\* extraction of request r has returned an empty chunk list
ExtractedNothing(r) == req[r].extraction = "returned" /\ req[r].chunks = <<>>

\* the embedding call of request r has raised
EmbeddingRaised(r) ==
    /\ req[r].pc \in {"finally", "done"}
    /\ req[r].extraction = "returned" /\ req[r].chunks # <<>> /\ ~req[r].embedded

\* C6: the store is written only by a request whose extraction returned
\* chunks and whose embedding returned one vector per chunk; a request whose
\* extraction returned nothing ends with 422, one whose embedding raised
\* fails, and neither has called the store or owns a record in it.
C6_StoreOnlyAfterEmbedding ==
    /\ \A r \in DOMAIN req :
        /\ req[r].store_called =>
              /\ req[r].chunks # <<>> /\ req[r].embedded
              /\ Len(req[r].embeddings) = Len(req[r].chunks)
        /\ ExtractedNothing(r) =>
              /\ ~req[r].store_called
              /\ req[r].pc = "done" => req[r].status = 422
        /\ EmbeddingRaised(r) =>
              /\ ~req[r].store_called
              /\ req[r].pc = "done" => req[r].status = 500
    /\ \A k \in DOMAIN store :
        \/ k \in DOMAIN Preloaded /\ store[k] = Preloaded[k]
        \/ \E r \in DOMAIN req :
              /\ req[r].store_called
              /\ store[k].metadata.document_id = req[r].document_id

\* C6 witness: one request ended with 422 for want of text, the other failed
\* in the embedding call, and both have finished.
C6_Witness ==
    \E r1, r2 \in DOMAIN req :
        /\ ExtractedNothing(r1) /\ req[r1].pc = "done" /\ req[r1].status = 422
        /\ EmbeddingRaised(r2) /\ req[r2].pc = "done" /\ req[r2].status = 500

\* the record request r stores for its chunk n (1-based)
RecordOf(r, n) ==
    [embedding |-> req[r].embeddings[n],
     document |-> req[r].chunks[n],
     metadata |-> Metadata(req[r].document_id, req[r].chunks[n], n - 1,
                           req[r].written_at)]

IdsOf(r) == {ChunkId(req[r].document_id, n - 1) : n \in 1..Len(req[r].chunks)}

Stored(r) == req[r].pc = "done" /\ req[r].status = 200

\* C8: once two requests with different document ids have both stored, the
\* store holds, besides what it held before, exactly the records of the two
\* documents, each with its own text, embedding and metadata, and the count
\* has grown by the sum of the two chunk counts.
C8_DifferentDocumentsNoConflict ==
    \A r1, r2 \in DOMAIN req :
        (r1 # r2 /\ Stored(r1) /\ Stored(r2)
         /\ req[r1].document_id # req[r2].document_id) =>
            /\ \A r \in {r1, r2} : \A n \in 1..Len(req[r].chunks) :
                  /\ ChunkId(req[r].document_id, n - 1) \in DOMAIN store
                  /\ store[ChunkId(req[r].document_id, n - 1)] = RecordOf(r, n)
            /\ \A k \in DOMAIN store :
                  \/ k \in IdsOf(r1) \cup IdsOf(r2)
                  \/ k \in DOMAIN Preloaded /\ store[k] = Preloaded[k]
            /\ Cardinality({k \in DOMAIN store :
                               store[k].metadata.document_id # <<"u", "0">>})
                  = Len(req[r1].chunks) + Len(req[r2].chunks)

\* C8 witness: both requests have stored, one of them a document of two
\* chunks, on top of the records of an earlier run.
C8_Witness ==
    /\ Stored(1) /\ Stored(2)
    /\ Len(req[1].chunks) = 2 /\ Len(req[2].chunks) = 1
    /\ req[2].written_at < req[1].written_at
    /\ Count(store) = 4

\* C9: in the chunker walk every chunk is non-empty and no longer than
\* chunk_size, the k-th window is text[k*(C-O) : k*(C-O)+C], and two
\* consecutive windows that lie within the text share O characters.
C9_Windows ==
    ck.pc \in {"loop", "done"} =>
        LET C == ck.chunk_size
            O == ck.overlap
            W == ck.windows
        IN  /\ \A n \in 1..Len(ck.chunks) :
                  ck.chunks[n] # <<>> /\ Len(ck.chunks[n]) <= C
            /\ \A k \in 1..Len(W) :
                  W[k] = Slice(ck.text, (k - 1) * (C - O), (k - 1) * (C - O) + C)
            /\ \A k \in 1..(Len(W) - 1) :
                  (Len(W[k]) = C /\ Len(W[k + 1]) = C) =>
                      SubSeq(W[k], C - O + 1, C) = SubSeq(W[k + 1], 1, O)
            /\ ck.pc = "done" => ck.result = ck.chunks

\* C9 witness: a finished walk with overlap that cut two full windows sharing
\* a character, trimmed one window and dropped a blank one.
C9_Witness ==
    /\ ck.pc = "done" /\ ck.overlap = 1 /\ ck.chunk_size = 3
    /\ Len(ck.windows) >= 2
    /\ Len(ck.windows[1]) = 3 /\ Len(ck.windows[2]) = 3
    /\ ck.windows[1][3] = "b" /\ ck.windows[2][1] = "b"
    /\ Len(ck.result) < Len(ck.windows)
    /\ \E n \in 1..Len(ck.result) : Len(ck.result[n]) < 3

\* the extensions the service accepts
AcceptedExtensions ==
    {<<".", "p", "d", "f">>, <<".", "d", "o", "c", "x">>, <<".", "p", "p", "t", "x">>}

\* C10: process_document given an extension outside .pdf, .docx, .pptx (case
\* ignored) raises ValueError and has called no extractor; upload_document
\* given such a file name answers 400 and has created no temp file and
\* neither extracted, embedded nor stored.
C10_UnsupportedRejectedFirst ==
    /\ (ex.pc = "done" /\ ex.fn = "process_document"
        /\ Lower(ex.file_ext) \notin AcceptedExtensions) =>
            /\ ex.result.raised = "ValueError"
            /\ ex.result.attempted = {}
            /\ ex.result.chunks = <<>>
    /\ \A r \in DOMAIN req :
        (req[r].endpoint = "upload_document" /\ req[r].pc # "validate"
         /\ SplitExt(Lower(req[r].filename)) \notin AcceptedExtensions) =>
            /\ req[r].pc = "done" /\ req[r].status = 400
            /\ ~req[r].created /\ req[r].tmp_file = "absent"
            /\ req[r].extraction = "pending" /\ ~req[r].embedded
            /\ ~req[r].store_called /\ req[r].document_id = <<>>

\* C10 witness: upload_document has answered 400 to a.txt while the other
\* request, an accepted upper-case .PDF name, went on to extraction.
C10_Witness ==
    \E r1, r2 \in DOMAIN req :
        /\ req[r1].endpoint = "upload_document" /\ req[r1].status = 400
        /\ req[r1].filename = <<"a", ".", "t", "x", "t">>
        /\ req[r2].endpoint = "upload_document" /\ req[r2].extraction # "pending"
        /\ req[r2].filename = <<"a", ".", "P", "D", "F">>

\* C11: a store_document call with an empty chunk list is a no-op in every
\* store state: it returns without an exception, never reaches the
\* collection's add, and leaves the stored records and the count as they were
C11_EmptyChunksNoOp ==
    (call.pc = "returned" /\ call.chunks = <<>>) =>
        /\ call.raised = "none"
        /\ ~call.add_called
        /\ store = call.before
        /\ Count(store) = Count(call.before)

\* an empty call has returned on a collection that already holds records
C11_Witness ==
    /\ call.pc = "returned"
    /\ call.chunks = <<>>
    /\ Count(call.before) > 0
    /\ store = call.before

\* a text made of whitespace only (the empty text included)
OnlyWhitespace(s) == \A i \in 1..Len(s) : IsSpace(s[i])

\* C12: for 0 <= overlap < chunk_size the chunker returns the empty sequence
\* for the empty text and for every whitespace-only text; a window of pure
\* whitespace adds nothing to the chunks, so the chunks are the trimmed
\* windows that hold a visible character, in order, and none is empty
C12_BlankWindowsDropped ==
    /\ (ck.pc = "done" /\ OnlyWhitespace(ck.text)) => ck.result = <<>>
    /\ ck.pc \in {"loop", "done"} =>
          LET W == ck.windows
              kept == {k \in 1..Len(W) : ~OnlyWhitespace(W[k])}
              rank(k) == Cardinality({j \in kept : j <= k})
          IN  /\ Len(ck.chunks) = Cardinality(kept)
              /\ \A k \in kept : ck.chunks[rank(k)] = Strip(W[k])
              /\ \A n \in 1..Len(ck.chunks) : Len(ck.chunks[n]) >= 1
    /\ ck.pc = "done" => ck.result = ck.chunks

\* C12 witness: a finished walk over a whitespace-only text of spaces and a
\* newline that cut several windows and returned no chunk
C12_Witness ==
    /\ ck.pc = "done"
    /\ Len(ck.text) >= 3 /\ OnlyWhitespace(ck.text)
    /\ \E i \in 1..Len(ck.text) : ck.text[i] = "\n"
    /\ Len(ck.windows) >= 2
    /\ ck.result = <<>>

\* ceil(n / d) for d > 0
Ceil(n, d) == (n + d - 1) \div d

\* the facts of a walk that hold in each of its states
WalkSteps ==
    LET C == ck.chunk_size
        O == ck.overlap
        L == Len(ck.text)
        n == Len(ck.windows)
    IN  /\ ck.pc \in {"loop", "done"} => ck.start = n * (C - O)
        /\ O < C =>
              /\ ck.pc = "loop" => n <= Ceil(L, C - O) /\ n <= MaxTextLen
              /\ (ck.pc = "loop" /\ n < Ceil(L, C - O)) => ck.start < L
              /\ ck.pc = "done" =>
                    /\ n = Ceil(L, C - O)
                    /\ ck.start >= L
                    /\ n > 0 => ck.start - (C - O) < L
        /\ (O >= C /\ L > 0) =>
              /\ ck.pc # "done"
              /\ ck.pc = "loop" => ck.start < L

\* C13: start advances by step = chunk_size - overlap in each iteration; with
\* 0 <= overlap < chunk_size the loop ends after exactly ceil(len(T) / step)
\* iterations, at the first start >= len(T), and the call returns; the code
\* does not test the precondition, and with overlap >= chunk_size on a
\* non-empty text the loop condition stays true and the call never returns
C13_WalkTerminates ==
    /\ []WalkSteps
    /\ (ck.pc = "call" /\ ck.overlap < ck.chunk_size) ~> (ck.pc = "done")

\* C13 witness: a walk with overlap over a five-character text has returned
\* after ceil(5 / 2) = 3 iterations, the last one starting inside the text
C13_Witness ==
    /\ ck.pc = "done"
    /\ ck.chunk_size = 3 /\ ck.overlap = 1 /\ Len(ck.text) = 5
    /\ Len(ck.windows) = 3
    /\ ck.start = 6

\* the normalized text a call on a long text layer hands to the chunker
CleanOf(e) == Normalize(e.file.native.items[1])

\* C14: process_pdf and process_document chunk normalized text with chunk_size
\* 500 and overlap 50, and no window is dropped: a normalized text of length L
\* gives exactly ceil(L / 450) chunks, chunk k is the trimmed window starting
\* at 450 * k, so store_document files it under chunk index k; a text of 1200
\* characters gives 3 chunks, the last shorter than 500
C14_NoWindowDropped ==
    ex.pc = "done" =>
        LET clean == CleanOf(ex)
            L == Len(clean)
            chunks == ex.result.chunks
            d == <<"d">>
            stored == store_document(EmptyCollection, 0, d, chunks,
                                     generate_embeddings(chunks)).coll
        IN  /\ ex.result.raised = "none"
            /\ Len(chunks) = (L + 449) \div 450
            /\ \A k \in 0..(Len(chunks) - 1) :
                  /\ chunks[k + 1] = Strip(Slice(clean, 450 * k, 450 * k + 500))
                  /\ chunks[k + 1] # <<>>
                  /\ stored[ChunkId(d, k)].document = chunks[k + 1]
                  /\ stored[ChunkId(d, k)].metadata.chunk_index = k
            /\ Count(stored) = Len(chunks)
            /\ L = 1200 => Len(chunks) = 3 /\ Len(chunks[3]) < 500

\* C14 witness: a text layer that is 1200 characters long once normalized has
\* been cut into 3 chunks, the third one 300 characters long
C14_Witness ==
    /\ ex.pc = "done"
    /\ Len(CleanOf(ex)) = 1200
    /\ Len(ex.result.chunks) = 3
    /\ Len(ex.result.chunks[3]) = 300

=============================================================================
